---- MODULE Spec2Model ----
(***************************************************************************)
(* Blogging platform backend: the CRUD + search contract of the resource   *)
(* modules (blog, draft, comment, like, tag, category, blog-tag,           *)
(* blog-category) over a shared relational store.                          *)
(*                                                                         *)
(* The store is a function from table name to the set of its rows.  A row  *)
(* is a record; a many-to-one relation is stored as the id of the row it   *)
(* references (the join column).  Text is a sequence of one-character      *)
(* strings, so that the LIKE prefix match is computed, not assumed.        *)
(***************************************************************************)
EXTENDS Integers, Sequences, FiniteSets, TLC

(***************************************************************************)
(* Bounds of the model.                                                    *)
(***************************************************************************)
\* blog ids handed out in the specification of the blog resource alone
MaxBlogs == 2
\* ids handed out per parent table (blogs, tags, categories) elsewhere
MaxParents == 1
\* rows created in the other tables, all tables together
MaxRows == 1
\* rows created in the specifications of the paginated lists
MaxListed == 2
\* the last value of the storage clock where creation times matter
MaxClock == 1
\* rows created in the specification of the dropdowns
MaxOptions == 6

Users == {1, 2}
Procs == {1, 2}

Tables ==
  {"blogs", "drafts", "comments", "likes", "tags", "categories",
   "blogTags", "blogCategories"}

\* the texts used as titles, contents and names
Go == <<"g", "o">>
Ag == <<"a", "g">>
Texts == {Go, Ag}

\* search terms: "" (treated as absent), "g", "1"
NoKeyword == <<>>
Keywords == {NoKeyword, <<"g">>, <<"1">>}

(***************************************************************************)
(* Entities: columns and relations of each table.                          *)
(***************************************************************************)
\* the plain columns of each entity (besides id and the timestamps)
Columns(t) ==
  CASE t = "blogs" -> {"title", "content", "published"}
    [] t = "drafts" -> {"content"}
    [] t = "comments" -> {"content"}
    [] t = "tags" -> {"name"}
    [] t = "categories" -> {"name"}
    [] OTHER -> {}

\* the relation that holds the owner of an owner-scoped entity ("" if global)
OwnerRelation(t) ==
  CASE t = "blogs" -> "author"
    [] t = "drafts" -> "createdBy"
    [] t = "comments" -> "user"
    [] t = "likes" -> "user"
    [] OTHER -> ""

OwnerScoped(t) == OwnerRelation(t) /= ""

\* the many-to-one relations to a parent entity (besides the owner)
ParentRelations(t) ==
  CASE t = "drafts" -> {"blog"}
    [] t = "comments" -> {"blog"}
    [] t = "likes" -> {"blog"}
    [] t = "blogTags" -> {"blog", "tag"}
    [] t = "blogCategories" -> {"blog", "category"}
    [] OTHER -> {}

\* the table a parent relation points to
RelationTarget(rel) ==
  CASE rel = "blog" -> "blogs"
    [] rel = "tag" -> "tags"
    [] rel = "category" -> "categories"

\* the DTO property that carries the id of a parent relation
DtoKey(rel) ==
  CASE rel = "blog" -> "blogId"
    [] rel = "tag" -> "tagId"
    [] rel = "category" -> "categoryId"

\* onDelete of the blog relation of the comment entity
CommentBlogOnDelete == "CASCADE"

\* onDelete of a parent relation, as declared on the @ManyToOne of the entity
OnDelete(t, rel) ==
  CASE t = "comments" /\ rel = "blog" -> CommentBlogOnDelete
    [] t = "drafts" /\ rel = "blog" -> "CASCADE"
    [] t = "likes" /\ rel = "blog" -> "CASCADE"
    [] t = "blogTags" /\ rel = "blog" -> "CASCADE"
    [] t = "blogTags" /\ rel = "tag" -> "CASCADE"
    [] t = "blogCategories" /\ rel = "blog" -> "CASCADE"
    [] t = "blogCategories" /\ rel = "category" -> "CASCADE"
    [] OTHER -> "NO ACTION"

\* the message of the NotFoundException each service throws
NotFoundMessage(t) ==
  CASE t = "blogs" -> "BlogEntity not found"
    [] t = "drafts" -> "DraftEntity not found"
    [] t = "comments" -> "CommentEntity not found"
    [] t = "likes" -> "LikeEntity not found"
    [] t = "tags" -> "TagEntity not found"
    [] t = "categories" -> "CategoryEntity not found"
    [] t = "blogTags" -> "BlogTagEntity not found"
    [] t = "blogCategories" -> "BlogCategoryEntity not found"

(***************************************************************************)
(* State.                                                                  *)
(***************************************************************************)
VARIABLES
  db,      \* table name -> set of stored rows
  nextId,  \* table name -> next value of the generated primary key
  now,     \* the storage clock that stamps createdAt
  procs,   \* request slot -> the update or delete in flight between its awaits
  resp     \* request slot -> the response to the latest request of the slot

vars == <<db, nextId, now, procs, resp>>

Idle == [pc |-> "idle"]

NoResponse == [op |-> "none"]

Init ==
  /\ db = [t \in Tables |-> {}]
  /\ nextId = [t \in Tables |-> 1]
  /\ now = 0
  /\ procs = [p \in Procs |-> Idle]
  /\ resp = [p \in Procs |-> NoResponse]

(***************************************************************************)
(* Text, LIKE and the WHERE clause of the query builder.                   *)
(***************************************************************************)
DigitChars == <<"0", "1", "2", "3", "4", "5", "6", "7", "8", "9">>

RECURSIVE Digits(_)
\* a number read as text (how the storage compares a numeric column in LIKE)
Digits(n) ==
  IF n < 10 THEN <<DigitChars[n + 1]>>
  ELSE Digits(n \div 10) \o <<DigitChars[(n % 10) + 1]>>

\* a column of a row, interpreted as text
ColumnText(row, field) ==
  CASE field = "id" -> Digits(row.id)
    [] field = "published" -> IF row.published THEN <<"1">> ELSE <<"0">>
    [] OTHER -> row[field]

RECURSIVE LikeMatch(_, _)
\* SQL LIKE: % matches any run of characters, _ matches one character
LikeMatch(text, pattern) ==
  IF pattern = <<>> THEN text = <<>>
  ELSE IF Head(pattern) = "%"
    THEN \/ LikeMatch(text, Tail(pattern))
         \/ text /= <<>> /\ LikeMatch(Tail(text), pattern)
  ELSE /\ text /= <<>>
       /\ Head(pattern) = "_" \/ Head(pattern) = Head(text)
       /\ LikeMatch(Tail(text), Tail(pattern))

\* `${alias}.${field} LIKE :keyword` with keyword: `${keyword}%`
LikeCondition(alias, field, keyword) ==
  [kind |-> "like", alias |-> alias, field |-> field,
   arg |-> keyword \o <<"%">>]

\* `${alias}.${relation}.id = :value`
EqCondition(alias, relation, value) ==
  [kind |-> "eq", alias |-> alias, field |-> relation, arg |-> value]

\* new Brackets((qb) => { qb.orWhere(...) ... }): a parenthesised sub-clause
Brackets(qb) == [kind |-> "brackets", conds |-> qb]

RECURSIVE EvalWheres(_, _)
\* one condition, evaluated on a joined row (alias -> row)
EvalCondition(c, env) ==
  IF c.kind = "like"
  THEN LikeMatch(ColumnText(env[c.alias], c.field), c.arg)
  ELSE IF c.kind = "brackets" THEN EvalWheres(c.conds, env)
  ELSE env[c.alias][c.field] = c.arg

\* QueryBuilder.where: replaces the conditions set so far
where(qb, c) == <<[type |-> "simple", cond |-> c]>>

\* QueryBuilder.andWhere / orWhere: append to the flat list of conditions
andWhere(qb, c) == Append(qb, [type |-> "and", cond |-> c])

orWhere(qb, c) == Append(qb, [type |-> "or", cond |-> c])

RECURSIVE EvalFrom(_, _, _, _)
\* the flat list is emitted as  c1 OR c2 AND c3 ...  with no parentheses,
\* so the storage evaluates it with AND binding tighter than OR
EvalFrom(qb, env, i, cur) ==
  IF i > Len(qb) THEN cur
  ELSE IF qb[i].type = "or"
    THEN cur \/ EvalFrom(qb, env, i + 1, EvalCondition(qb[i].cond, env))
    ELSE EvalFrom(qb, env, i + 1, cur /\ EvalCondition(qb[i].cond, env))

\* no condition, in the WHERE clause or inside Brackets, holds of every row
\* (the query builder renders an empty group as 1=1)
EvalWheres(qb, env) ==
  IF qb = <<>> THEN TRUE
  ELSE EvalFrom(qb, env, 2, EvalCondition(qb[1].cond, env))

\* the alias each repository gives its own entity in createQueryBuilder
Alias(t) ==
  CASE t = "blogs" -> "blog"
    [] t = "drafts" -> "draft"
    [] t = "comments" -> "comment"
    [] t = "likes" -> "like"
    [] t = "tags" -> "tag"
    [] t = "categories" -> "category"
    [] t = "blogTags" -> "blogTag"
    [] t = "blogCategories" -> "blogCategory"

RECURSIVE KeywordConditions(_, _, _, _, _)
\* fields.forEach((field, index) => index === 0 ? where(...) : orWhere(...))
KeywordConditions(t, fields, keyword, i, qb) ==
  IF i > Len(fields) THEN qb
  ELSE KeywordConditions(t, fields, keyword, i + 1,
         IF i = 1 THEN where(qb, LikeCondition(Alias(t), fields[i], keyword))
         ELSE orWhere(qb, LikeCondition(Alias(t), fields[i], keyword)))

\* getQueryBuilder without the condition on the owner
getQueryBuilder_Unscoped(t, userId, fields, keyword) ==
  IF keyword /= NoKeyword
  THEN KeywordConditions(t, fields, keyword, 1, <<>>)
  ELSE <<>>

\* <Resource>Repository.getQueryBuilder
getQueryBuilder(t, userId, fields, keyword) ==
  LET searched == IF keyword /= NoKeyword
                  THEN KeywordConditions(t, fields, keyword, 1, <<>>)
                  ELSE <<>>
  IN IF OwnerScoped(t)
     THEN andWhere(searched, EqCondition(Alias(t), OwnerRelation(t), userId))
     ELSE searched

(***************************************************************************)
(* Repository: findById, getAll, findAllDropdown.                          *)
(***************************************************************************)
Null == [null |-> TRUE]

\* at most this many rows in a dropdown: take(5)
DropdownLimit == 5

\* the relations findById loads with the entity
FindByIdRelations(t) ==
  CASE t = "drafts" -> {"blog"}
    [] t = "comments" -> {"blog"}
    [] t = "likes" -> {"blog"}
    [] t = "blogTags" -> {"blog", "tag"}
    [] t = "blogCategories" -> {"blog", "category"}
    [] OTHER -> {}

\* the fields getAll searches on its own entity
GetAllFields(t) ==
  CASE t = "blogs" -> <<"title", "content", "published">>
    [] t = "drafts" -> <<"content">>
    [] t = "comments" -> <<"content">>
    [] t = "tags" -> <<"name">>
    [] t = "categories" -> <<"name">>
    [] OTHER -> <<>>

\* the inner joins of getAll and the joined field each one searches
GetAllJoins(t) ==
  CASE t = "drafts" -> <<[rel |-> "blog", field |-> "title"]>>
    [] t = "comments" -> <<[rel |-> "blog", field |-> "title"]>>
    [] t = "likes" -> <<[rel |-> "blog", field |-> "title"]>>
    [] t = "blogTags" -> <<[rel |-> "blog", field |-> "title"],
                           [rel |-> "tag", field |-> "name"]>>
    [] t = "blogCategories" -> <<[rel |-> "blog", field |-> "title"],
                                 [rel |-> "category", field |-> "name"]>>
    [] OTHER -> <<>>

\* an entity as the ORM hydrates it: id and columns (createdAt and updatedAt
\* are select: false)
PlainEntity(t, r) == [f \in {"id"} \cup Columns(t) |-> r[f]]

Referenced(d, rel, id) == CHOOSE x \in d[RelationTarget(rel)] : x.id = id

\* an entity with the given relations loaded
LoadedEntity(d, t, r, rels) ==
  [f \in {"id"} \cup Columns(t) \cup rels |->
     IF f \in rels
     THEN PlainEntity(RelationTarget(f), Referenced(d, f, r[f]))
     ELSE r[f]]

\* findById without the owner in its where clause
findById_AnyOwner(d, t, userId, id) ==
  LET found == {r \in d[t] : r.id = id}
  IN IF found = {} THEN Null
     ELSE LoadedEntity(d, t, CHOOSE r \in found : TRUE, FindByIdRelations(t))

\* <Resource>Repository.findById: findOne({ where: { id, owner: { id: userId } } })
findById(d, t, userId, id) ==
  LET found == {r \in d[t] :
                  /\ r.id = id
                  /\ OwnerScoped(t) => r[OwnerRelation(t)] = userId}
  IN IF found = {} THEN Null
     ELSE LoadedEntity(d, t, CHOOSE r \in found : TRUE, FindByIdRelations(t))

\* the rows of a table inner-joined with the given relations: alias -> row
JoinedRows(d, t, rels) ==
  {[a \in {Alias(t)} \cup rels |->
      IF a = Alias(t) THEN r ELSE Referenced(d, a, r[a])] :
     r \in {x \in d[t] :
              \A rel \in rels : \E y \in d[RelationTarget(rel)] : y.id = x[rel]}}

RECURSIVE JoinConditions_AndWhere(_, _, _, _)
\* innerJoin(relation) followed by  if (searchTerm) andWhere(joined LIKE)
JoinConditions_AndWhere(joins, searchTerm, i, qb) ==
  IF i > Len(joins) THEN qb
  ELSE JoinConditions_AndWhere(joins, searchTerm, i + 1,
         IF searchTerm /= NoKeyword
         THEN andWhere(qb, LikeCondition(joins[i].rel, joins[i].field, searchTerm))
         ELSE qb)

RECURSIVE JoinConditions(_, _, _, _)
\* innerJoin(relation) followed by  if (searchTerm) orWhere(joined LIKE)
JoinConditions(joins, searchTerm, i, qb) ==
  IF i > Len(joins) THEN qb
  ELSE JoinConditions(joins, searchTerm, i + 1,
         IF searchTerm /= NoKeyword
         THEN orWhere(qb, LikeCondition(joins[i].rel, joins[i].field, searchTerm))
         ELSE qb)

\* the query getAll builds
GetAllQuery(t, userId, searchTerm) ==
  JoinConditions(GetAllJoins(t), searchTerm, 1,
                 getQueryBuilder(t, userId, GetAllFields(t), searchTerm))

JoinedRelations(t) == {GetAllJoins(t)[i].rel : i \in 1..Len(GetAllJoins(t))}

\* the stored rows the getAll query matches
GetAllMatches(d, t, userId, searchTerm) ==
  {env[Alias(t)] :
     env \in {e \in JoinedRows(d, t, JoinedRelations(t)) :
                EvalWheres(GetAllQuery(t, userId, searchTerm), e)}}

\* the stored rows the dropdown query matches
DropdownMatches(d, t, userId, fields, keyword) ==
  {env[Alias(t)] :
     env \in {e \in JoinedRows(d, t, {}) :
                EvalWheres(getQueryBuilder(t, userId, fields, keyword), e)}}

RECURSIVE Arrangements(_)
\* every arrangement of a set of rows as a sequence
Arrangements(rows) ==
  IF rows = {} THEN {<<>>}
  ELSE UNION {{<<r>> \o s : s \in Arrangements(rows \ {r})} : r \in rows}

\* orderBy('createdAt', 'DESC'): rows of equal createdAt in any order
OrderedByCreatedAtDesc(rows) ==
  {s \in Arrangements(rows) :
     \A i, j \in 1..Len(s) : i < j => s[i].createdAt >= s[j].createdAt}

\* skip(skip).take(take) on an ordered result
Window(s, skip, take) ==
  [i \in 1..(IF Len(s) - skip < 0 THEN 0
             ELSE IF Len(s) - skip < take THEN Len(s) - skip ELSE take)
     |-> s[skip + i]]

\* a row of a list: the entity with createdAt selected, and id and the
\* searched field of each joined relation
ListEntity(d, t, r) ==
  [f \in {"id", "createdAt"} \cup Columns(t) \cup JoinedRelations(t) |->
     IF f \in JoinedRelations(t)
     THEN LET parent == Referenced(d, f, r[f])
              shown == CHOOSE i \in 1..Len(GetAllJoins(t)) :
                         GetAllJoins(t)[i].rel = f
          IN [g \in {"id", GetAllJoins(t)[shown].field} |-> parent[g]]
     ELSE r[f]]

\* getAll whose total counts the rows of the returned page
getAll_TotalOfPage(d, t, userId, skip, take, searchTerm) ==
  LET matches == GetAllMatches(d, t, userId, searchTerm)
  IN {[result |-> [i \in DOMAIN Window(s, skip, take) |->
                      ListEntity(d, t, Window(s, skip, take)[i])],
       total |-> Len(Window(s, skip, take))] :
        s \in OrderedByCreatedAtDesc(matches)}

\* <Resource>Repository.getAll: the possible [result, total]
getAll(d, t, userId, skip, take, searchTerm) ==
  LET matches == GetAllMatches(d, t, userId, searchTerm)
  IN {[result |-> [i \in DOMAIN Window(s, skip, take) |->
                      ListEntity(d, t, Window(s, skip, take)[i])],
       total |-> Cardinality(matches)] :
        s \in OrderedByCreatedAtDesc(matches)}

\* findAllDropdown without take(5)
findAllDropdown_NoTake(d, t, userId, fields, keyword) ==
  LET matches == DropdownMatches(d, t, userId, fields, keyword)
      selected == {fields[i] : i \in 1..Len(fields)}
  IN {[i \in DOMAIN s |-> [f \in selected |-> s[i][f]]] :
        s \in Arrangements(matches)}

\* <Resource>Repository.findAllDropdown: the possible results (the query has
\* no ORDER BY: the storage returns the matching rows in any order)
findAllDropdown(d, t, userId, fields, keyword) ==
  LET matches == DropdownMatches(d, t, userId, fields, keyword)
      selected == {fields[i] : i \in 1..Len(fields)}
  IN {[i \in DOMAIN Window(s, 0, DropdownLimit) |->
         [f \in selected |-> Window(s, 0, DropdownLimit)[i][f]]] :
        s \in Arrangements(matches)}

(***************************************************************************)
(* Repository: the lists scoped to a parent (get<Resource>sBy<Parent>Id).  *)
(***************************************************************************)
\* the own fields a parent-scoped list searches
ByParentFields(t) ==
  CASE t = "drafts" -> <<"content">>
    [] t = "comments" -> <<"content">>
    [] OTHER -> <<>>

\* the relation a parent-scoped list of a junction joins, and its searched field
ByParentJoins(t, rel) ==
  CASE t = "blogTags" /\ rel = "blog" -> <<[rel |-> "tag", field |-> "name"]>>
    [] t = "blogTags" /\ rel = "tag" -> <<[rel |-> "blog", field |-> "title"]>>
    [] t = "blogCategories" /\ rel = "blog" ->
         <<[rel |-> "category", field |-> "name"]>>
    [] t = "blogCategories" /\ rel = "category" ->
         <<[rel |-> "blog", field |-> "title"]>>
    [] OTHER -> <<>>

RECURSIVE OrLikes(_, _, _, _, _)
\* qb.orWhere(`${alias}.${field} LIKE :keyword`) for each searched field
OrLikes(alias, fields, searchTerm, i, qb) ==
  IF i > Len(fields) THEN qb
  ELSE OrLikes(alias, fields, searchTerm, i + 1,
               orWhere(qb, LikeCondition(alias, fields[i], searchTerm)))

\* the conditions inside the Brackets of a parent-scoped list
ByParentKeyword(t, rel, searchTerm) ==
  OrLikes(Alias(t), ByParentFields(t), searchTerm, 1,
          JoinConditions(ByParentJoins(t, rel), searchTerm, 1, <<>>))

\* a parent-scoped list with the parent condition alone
ByParentScope_ParentOnly(t, rel, userId, parentId) ==
  andWhere(<<>>, EqCondition(Alias(t), rel, parentId))

\* the owner and parent conditions of a parent-scoped list
ByParentScope(t, rel, userId, parentId) ==
  andWhere(IF OwnerScoped(t)
           THEN andWhere(<<>>, EqCondition(Alias(t), OwnerRelation(t), userId))
           ELSE <<>>,
           EqCondition(Alias(t), rel, parentId))

\* a parent-scoped list whose keyword conditions are appended without Brackets
ByParentQuery_FlatOr(t, rel, userId, parentId, searchTerm) ==
  IF searchTerm /= NoKeyword
  THEN ByParentScope(t, rel, userId, parentId)
         \o ByParentKeyword(t, rel, searchTerm)
  ELSE ByParentScope(t, rel, userId, parentId)

\* the query get<Resource>sBy<Parent>Id builds
ByParentQuery(t, rel, userId, parentId, searchTerm) ==
  IF searchTerm /= NoKeyword
  THEN andWhere(ByParentScope(t, rel, userId, parentId),
                Brackets(ByParentKeyword(t, rel, searchTerm)))
  ELSE ByParentScope(t, rel, userId, parentId)

ByParentJoined(t, rel) ==
  {ByParentJoins(t, rel)[i].rel : i \in 1..Len(ByParentJoins(t, rel))}

\* the stored rows the parent-scoped query matches
ByParentMatches(d, t, rel, userId, parentId, searchTerm) ==
  {env[Alias(t)] :
     env \in {e \in JoinedRows(d, t, ByParentJoined(t, rel)) :
                EvalWheres(ByParentQuery(t, rel, userId, parentId, searchTerm),
                           e)}}

\* a row of a parent-scoped list: the entity with createdAt selected, and id
\* and the searched field of the joined relation
ByParentEntity(d, t, rel, r) ==
  [f \in {"id", "createdAt"} \cup Columns(t) \cup ByParentJoined(t, rel) |->
     IF f \in ByParentJoined(t, rel)
     THEN LET parent == Referenced(d, f, r[f])
          IN [g \in {"id", ByParentJoins(t, rel)[1].field} |-> parent[g]]
     ELSE r[f]]

\* <Resource>Repository.get<Resource>sBy<Parent>Id: the possible [result, total]
getByParent(d, t, rel, userId, parentId, skip, take, searchTerm) ==
  LET matches == ByParentMatches(d, t, rel, userId, parentId, searchTerm)
  IN {[result |-> [i \in DOMAIN Window(s, skip, take) |->
                      ByParentEntity(d, t, rel, Window(s, skip, take)[i])],
       total |-> Cardinality(matches)] :
        s \in OrderedByCreatedAtDesc(matches)}

(***************************************************************************)
(* Persistence: save and remove of the ORM repository.                     *)
(***************************************************************************)
Ok(v) == [status |-> "ok", value |-> v]

\* an exception object: its class, its message and its code property
Thrown(error, message, code) ==
  [status |-> "error", error |-> error, message |-> message, code |-> code,
   description |-> "undefined"]

\* new BadRequestException(e.message, e.code): the object has no code property
BadRequestException(message, code) ==
  [status |-> "error", error |-> "BadRequestException", message |-> message,
   code |-> "undefined", description |-> code]

\* the storage rejects a row whose parent reference matches no stored row
ForeignKeyViolation ==
  Thrown("QueryFailedError", "foreign key constraint fails", "ER_NO_REFERENCED_ROW")

\* the storage rejects the removal of a row that is still referenced
RowIsReferenced ==
  Thrown("QueryFailedError", "foreign key constraint fails", "ER_ROW_IS_REFERENCED")

\* all the many-to-one relations of an entity
Relations(t) ==
  ParentRelations(t) \cup (IF OwnerScoped(t) THEN {OwnerRelation(t)} ELSE {})

\* INSERT: the row written for an entity that is not stored
InsertRow(t, entity, id, clock) ==
  [f \in {"id", "createdAt"} \cup Columns(t) \cup Relations(t) |->
     CASE f = "id" -> id
       [] f = "createdAt" -> clock
       [] f \in Columns(t) -> entity[f]
       [] OTHER -> entity[f].id]

\* UPDATE: every defined property of the entity is compared with the stored
\* row and written where it differs; an undefined property is left as stored
UpdateRow(t, r, entity) ==
  [f \in DOMAIN r |->
     IF f \in DOMAIN entity /\ f \in Columns(t) THEN entity[f]
     ELSE IF f \in DOMAIN entity /\ f \in Relations(t)
             /\ "id" \in DOMAIN entity[f] THEN entity[f].id
     ELSE r[f]]

\* save over tables that allow one row per combination of relations
save_UniqueRelations(d, nid, clock, t, entity) ==
  LET hasId == "id" \in DOMAIN entity
      existing == {r \in d[t] : hasId /\ r.id = entity.id}
      fkOk == \A rel \in ParentRelations(t) \cap DOMAIN entity :
                "id" \in DOMAIN entity[rel] =>
                  \E y \in d[RelationTarget(rel)] : y.id = entity[rel].id
      taken == /\ Relations(t) /= {}
               /\ \E r \in d[t] \ existing :
                    \A rel \in Relations(t) \cap DOMAIN entity :
                      "id" \in DOMAIN entity[rel] => r[rel] = entity[rel].id
      id == IF hasId THEN entity.id ELSE nid[t]
  IN IF ~fkOk
     THEN [outcome |-> ForeignKeyViolation, db |-> d, nextId |-> nid]
     ELSE IF taken
     THEN [outcome |-> Thrown("QueryFailedError", "duplicate entry", "ER_DUP_ENTRY"),
           db |-> d, nextId |-> nid]
     ELSE IF existing /= {}
     THEN [outcome |-> Ok(entity),
           db |-> [d EXCEPT ![t] =
                     {IF r \in existing THEN UpdateRow(t, r, entity) ELSE r :
                        r \in d[t]}],
           nextId |-> nid]
     ELSE [outcome |-> Ok([f \in DOMAIN entity \cup {"id", "createdAt"} |->
                             CASE f = "id" -> id
                               [] f = "createdAt" -> clock
                               [] OTHER -> entity[f]]),
           db |-> [d EXCEPT ![t] = @ \cup {InsertRow(t, entity, id, clock)}],
           nextId |-> [nid EXCEPT ![t] = IF id >= @ THEN id + 1 ELSE @]]

\* Repository.save: insert when no row has the entity's id, update otherwise
save(d, nid, clock, t, entity) ==
  LET hasId == "id" \in DOMAIN entity
      existing == {r \in d[t] : hasId /\ r.id = entity.id}
      fkOk == \A rel \in ParentRelations(t) \cap DOMAIN entity :
                "id" \in DOMAIN entity[rel] =>
                  \E y \in d[RelationTarget(rel)] : y.id = entity[rel].id
      id == IF hasId THEN entity.id ELSE nid[t]
  IN IF ~fkOk
     THEN [outcome |-> ForeignKeyViolation, db |-> d, nextId |-> nid]
     ELSE IF existing /= {}
     THEN [outcome |-> Ok(entity),
           db |-> [d EXCEPT ![t] =
                     {IF r \in existing THEN UpdateRow(t, r, entity) ELSE r :
                        r \in d[t]}],
           nextId |-> nid]
     ELSE [outcome |-> Ok([f \in DOMAIN entity \cup {"id", "createdAt"} |->
                             CASE f = "id" -> id
                               [] f = "createdAt" -> clock
                               [] OTHER -> entity[f]]),
           db |-> [d EXCEPT ![t] = @ \cup {InsertRow(t, entity, id, clock)}],
           nextId |-> [nid EXCEPT ![t] = IF id >= @ THEN id + 1 ELSE @]]

\* referencing rows when only the blog relations carry a foreign key
ReferencingRows_ThroughBlog(d, c, t, id, cascading) ==
  {x \in d[c] :
     \E rel \in ParentRelations(c) \cap {"blog"} :
       /\ RelationTarget(rel) = t
       /\ x[rel] = id
       /\ (OnDelete(c, rel) = "CASCADE") = cascading}

\* the rows of table c that reference row id of table t through a relation
\* declared with the given onDelete policy test
ReferencingRows(d, c, t, id, cascading) ==
  {x \in d[c] :
     \E rel \in ParentRelations(c) :
       /\ RelationTarget(rel) = t
       /\ x[rel] = id
       /\ (OnDelete(c, rel) = "CASCADE") = cascading}

\* remove that reports success and deletes nothing
remove_KeepsRow(d, t, entity) == [outcome |-> Ok(Null), db |-> d]

\* remove that deletes the row and leaves the rows that reference it
remove_NoCascade(d, t, entity) ==
  [outcome |-> Ok(Null),
   db |-> [d EXCEPT ![t] = {r \in d[t] : r.id /= entity.id}]]

\* remove that deletes the row and every row of the tables that have parents
remove_ClearsChildren(d, t, entity) ==
  [outcome |-> Ok(Null),
   db |-> [c \in Tables |->
             IF c = t THEN {r \in d[t] : r.id /= entity.id}
             ELSE IF ParentRelations(c) /= {} THEN {} ELSE d[c]]]

\* Repository.remove: DELETE by id; the storage removes the rows that
\* reference it through an onDelete CASCADE relation (no entity references a
\* child table, so one level is the whole cascade)
remove(d, t, entity) ==
  IF \E c \in Tables : ReferencingRows(d, c, t, entity.id, FALSE) /= {}
  THEN [outcome |-> RowIsReferenced, db |-> d]
  ELSE [outcome |-> Ok(Null),
        db |-> [c \in Tables |->
                  IF c = t THEN {r \in d[t] : r.id /= entity.id}
                  ELSE d[c] \ ReferencingRows(d, c, t, entity.id, TRUE)]]

(***************************************************************************)
(* Service: error translation, create, merge.                              *)
(***************************************************************************)
\* a catch that throws the exception with its default message
AwaitInTry_DefaultMessage(o) ==
  IF o.status = "error" THEN BadRequestException("Bad Request", o.code) ELSE o

\* try { ... await x ... } catch (e) { throw new BadRequestException(...) }
AwaitInTry(o) ==
  IF o.status = "error" THEN BadRequestException(o.message, o.code) ELSE o

\* try { return promise } catch: the promise is returned without await, so
\* its rejection settles the caller's promise and never enters the catch
ReturnInTry(o) == o

\* <Resource>Service.get<Resource>ById
getById(d, t, userId, id) ==
  LET found == findById(d, t, userId, id)
  IN AwaitInTry(IF found = Null
                THEN Thrown("NotFoundException", NotFoundMessage(t), "undefined")
                ELSE Ok(found))

\* a relation stub whose id is null when the DTO omits the key
Stub_NullId(dto, key) == [id |-> IF key \in DOMAIN dto THEN dto[key] ELSE 0]

\* a relation stub { id: value }; { id: undefined } has no defined property
Stub(dto, key) ==
  IF key \in DOMAIN dto THEN [id |-> dto[key]] ELSE [x \in {} |-> x]

\* create that copies the request body into the entity after the owner
NewEntity_SpreadsBody(t, userId, dto) ==
  [f \in Columns(t) \cup Relations(t) |->
     IF f \in Columns(t) THEN dto[f]
     ELSE IF f = OwnerRelation(t)
       THEN IF f \in DOMAIN dto THEN dto[f] ELSE [id |-> userId]
     ELSE Stub(dto, DtoKey(f))]

\* create that fills the content of a blog from the title of the DTO
NewEntity_TitleAsContent(t, userId, dto) ==
  [f \in Columns(t) \cup Relations(t) |->
     IF f \in Columns(t)
     THEN IF f = "content" /\ "title" \in DOMAIN dto THEN dto["title"] ELSE dto[f]
     ELSE IF f = OwnerRelation(t) THEN [id |-> userId]
     ELSE Stub(dto, DtoKey(f))]

\* repository.create({...}) of <Resource>Service.create<Resource>
NewEntity(t, userId, dto) ==
  [f \in Columns(t) \cup Relations(t) |->
     IF f \in Columns(t) THEN dto[f]
     ELSE IF f = OwnerRelation(t) THEN [id |-> userId]
     ELSE Stub(dto, DtoKey(f))]

\* updateData that gives an omitted column an empty value instead of undefined
UpdateData_Defaults(t, userId, dto) ==
  [f \in Columns(t) \cup Relations(t) |->
     IF f \in Columns(t)
     THEN IF f \in DOMAIN dto THEN dto[f]
          ELSE IF f = "published" THEN FALSE ELSE <<>>
     ELSE IF f = OwnerRelation(t) THEN [id |-> userId]
     ELSE Stub(dto, DtoKey(f))]

\* updateData of <Resource>Service.update<Resource>, undefined properties left out
UpdateData(t, userId, dto) ==
  [f \in (Columns(t) \cap DOMAIN dto) \cup Relations(t) |->
     IF f \in Columns(t) THEN dto[f]
     ELSE IF f = OwnerRelation(t) THEN [id |-> userId]
     ELSE Stub(dto, DtoKey(f))]

\* copies the defined properties of source over target
Assign(target, source) ==
  [f \in DOMAIN target \cup DOMAIN source |->
     IF f \in DOMAIN source THEN source[f] ELSE target[f]]

\* merge that gives the merged entity the next id
merge_Renumbers(t, entity, updateData) ==
  [f \in DOMAIN entity \cup DOMAIN updateData |->
     IF f = "id" THEN entity.id + 1
     ELSE IF f \notin DOMAIN updateData THEN entity[f]
     ELSE IF f \in Columns(t) THEN updateData[f]
     ELSE Assign(IF f \in DOMAIN entity THEN entity[f] ELSE [x \in {} |-> x],
                 updateData[f])]

\* merge that keeps of the loaded entity only its id
merge_OnlyUpdateData(t, entity, updateData) ==
  [f \in {"id"} \cup DOMAIN updateData |->
     IF f = "id" THEN entity.id ELSE updateData[f]]

\* Repository.merge: defined columns are copied; a relation object is merged
\* into the loaded relation, or into a new object when none is loaded
merge(t, entity, updateData) ==
  [f \in DOMAIN entity \cup DOMAIN updateData |->
     IF f \notin DOMAIN updateData THEN entity[f]
     ELSE IF f \in Columns(t) THEN updateData[f]
     ELSE Assign(IF f \in DOMAIN entity THEN entity[f] ELSE [x \in {} |-> x],
                 updateData[f])]

(***************************************************************************)
(* Requests.  A request that makes one repository access is one step; an   *)
(* update or a delete is two steps, split at the await between its         *)
(* existence check and its save or remove.                                 *)
(***************************************************************************)
Response(op, t, userId, id, input, outcome) ==
  [op |-> op, table |-> t, caller |-> userId, id |-> id, input |-> input,
   outcome |-> outcome]

Free(p) == procs[p].pc = "idle"

\* GET /{resource}/:id
GetById(p, t, userId, id) ==
  /\ Free(p)
  /\ resp' = [resp EXCEPT ![p] =
                Response("getById", t, userId, id, Null,
                         getById(db, t, userId, id))]
  /\ UNCHANGED <<db, nextId, now, procs>>

\* GET /{resource}?search= : <Resource>Service.getAll<Resource>s
GetAll(p, t, userId, skip, take, search) ==
  /\ Free(p)
  /\ \E r \in getAll(db, t, userId, skip, take, search) :
       resp' = [resp EXCEPT ![p] =
                  Response("getAll", t, userId, 0,
                           [skip |-> skip, take |-> take, search |-> search],
                           AwaitInTry(Ok(r)))]
  /\ UNCHANGED <<db, nextId, now, procs>>

\* GET /{parents}/:id/{resource} : <Resource>Service.get<Resource>sBy<Parent>Id
GetByParent(p, t, rel, userId, parentId, skip, take, search) ==
  /\ Free(p)
  /\ \E r \in getByParent(db, t, rel, userId, parentId, skip, take, search) :
       resp' = [resp EXCEPT ![p] =
                  Response("listByParent", t, userId, parentId,
                           [rel |-> rel, skip |-> skip, take |-> take,
                            search |-> search],
                           AwaitInTry(Ok(r)))]
  /\ UNCHANGED <<db, nextId, now, procs>>

(* Values of the controller's query parameters: undefined (absent), a       *)
(* string, or a number (NaN included).                                      *)
Undefined == [type |-> "undefined"]

Str(text) == [type |-> "string", text |-> text]

Num(n) == [type |-> "number", nan |-> FALSE, val |-> n]

NaN == [type |-> "number", nan |-> TRUE, val |-> 0]

RECURSIVE DigitsValue(_)
\* the value of a non-empty run of decimal digits
DigitsValue(text) ==
  LET last == CHOOSE n \in 0..9 : DigitChars[n + 1] = text[Len(text)]
  IN IF Len(text) = 1 THEN last
     ELSE 10 * DigitsValue(SubSeq(text, 1, Len(text) - 1)) + last

AllDigits(text) ==
  /\ text /= <<>>
  /\ \A i \in 1..Len(text) : \E n \in 1..10 : DigitChars[n] = text[i]

\* Number(value): a number is itself; "" is 0; an optionally signed run of
\* digits is its value; any other string here is NaN
Number(v) ==
  IF v.type = "number" THEN v
  ELSE IF v.text = <<>> THEN Num(0)
  ELSE IF AllDigits(v.text) THEN Num(DigitsValue(v.text))
  ELSE IF Head(v.text) = "-" /\ AllDigits(Tail(v.text))
    THEN Num(0 - DigitsValue(Tail(v.text)))
  ELSE NaN

\* Math.max(a, b): NaN when an argument is NaN
MathMax(a, b) ==
  IF a.nan \/ b.nan THEN NaN ELSE IF a.val >= b.val THEN a ELSE b

\* a parameter with a default value: the default replaces undefined only
DefaultTo(v, initializer) == IF v.type = "undefined" THEN initializer ELSE v

\* pageNumber, itemsPerPage and skip of <Resource>Controller.getAll<Resource>s
Pagination(page, limit) ==
  LET pageNumber == MathMax(Num(1), Number(DefaultTo(page, Num(1))))
      itemsPerPage == MathMax(Num(1), Number(DefaultTo(limit, Num(10))))
  IN [pageNumber |-> pageNumber,
      itemsPerPage |-> itemsPerPage,
      skip |-> IF pageNumber.nan \/ itemsPerPage.nan THEN NaN
               ELSE Num((pageNumber.val - 1) * itemsPerPage.val)]

\* what the query builder or the storage answers to take(NaN).skip(NaN)
NotANumberErrors ==
  {Thrown("TypeORMError", "Provided \"take\" value is not a number", "undefined"),
   Thrown("QueryFailedError", "syntax error near NaN", "ER_PARSE_ERROR")}

\* GET /{resource}?page=&limit=&search= : <Resource>Controller.getAll<Resource>s
GetAllPaged(p, t, userId, page, limit, search) ==
  /\ Free(p)
  /\ LET pg == Pagination(page, limit)
         query == [page |-> page, limit |-> limit, search |-> search]
     IN IF pg.skip.nan
        THEN \E e \in NotANumberErrors :
               resp' = [resp EXCEPT ![p] =
                          Response("list", t, userId, 0, query, AwaitInTry(e))]
        ELSE \E r \in getAll(db, t, userId, pg.skip.val, pg.itemsPerPage.val,
                             search) :
               resp' = [resp EXCEPT ![p] =
                          Response("list", t, userId, 0, query, AwaitInTry(Ok(r)))]
  /\ UNCHANGED <<db, nextId, now, procs>>

\* GET /{resource}/dropdown : <Resource>Service.findAllDropdownData
Dropdown(p, t, userId, fields, keyword) ==
  /\ Free(p)
  /\ \E r \in findAllDropdown(db, t, userId, fields, keyword) :
       resp' = [resp EXCEPT ![p] =
                  Response("dropdown", t, userId, 0,
                           [fields |-> fields, keyword |-> keyword],
                           ReturnInTry(Ok(r)))]
  /\ UNCHANGED <<db, nextId, now, procs>>

\* POST /{resource} : <Resource>Service.create<Resource>
Create(p, t, userId, dto) ==
  /\ Free(p)
  /\ LET s == save(db, nextId, now, t, NewEntity(t, userId, dto))
     IN /\ db' = s.db
        /\ nextId' = s.nextId
        /\ resp' = [resp EXCEPT ![p] =
                      Response("create", t, userId,
                               IF s.outcome.status = "ok"
                               THEN s.outcome.value.id ELSE 0,
                               dto, ReturnInTry(s.outcome))]
  /\ UNCHANGED <<now, procs>>

\* PUT /{resource}/:id, up to the await of get<Resource>ById
UpdateRead(p, t, userId, id, dto) ==
  /\ Free(p)
  /\ LET o == getById(db, t, userId, id)
     IN IF o.status = "error"
        THEN /\ resp' = [resp EXCEPT ![p] =
                           Response("update", t, userId, id, dto, AwaitInTry(o))]
             /\ UNCHANGED procs
        ELSE /\ procs' = [procs EXCEPT ![p] =
                            [pc |-> "save", table |-> t, caller |-> userId,
                             id |-> id, dto |-> dto, entity |-> o.value]]
             /\ resp' = [resp EXCEPT ![p] = NoResponse]
  /\ UNCHANGED <<db, nextId, now>>

\* PUT /{resource}/:id, from merge to the returned save
UpdateSave(p) ==
  /\ procs[p].pc = "save"
  /\ LET r == procs[p]
         merged == merge(r.table, r.entity, UpdateData(r.table, r.caller, r.dto))
         s == save(db, nextId, now, r.table, merged)
     IN /\ db' = s.db
        /\ nextId' = s.nextId
        /\ resp' = [resp EXCEPT ![p] =
                      Response("update", r.table, r.caller, r.id, r.dto,
                               ReturnInTry(s.outcome))]
  /\ procs' = [procs EXCEPT ![p] = Idle]
  /\ UNCHANGED now

\* DELETE /{resource}/:id, up to the await of get<Resource>ById
DeleteRead(p, t, userId, id) ==
  /\ Free(p)
  /\ LET o == getById(db, t, userId, id)
     IN IF o.status = "error"
        THEN /\ resp' = [resp EXCEPT ![p] =
                           Response("delete", t, userId, id, Null, AwaitInTry(o))]
             /\ UNCHANGED procs
        ELSE /\ procs' = [procs EXCEPT ![p] =
                            [pc |-> "remove", table |-> t, caller |-> userId,
                             id |-> id, dto |-> Null, entity |-> o.value]]
             /\ resp' = [resp EXCEPT ![p] = NoResponse]
  /\ UNCHANGED <<db, nextId, now>>

\* DELETE /{resource}/:id, the awaited remove
DeleteRemove(p) ==
  /\ procs[p].pc = "remove"
  /\ LET r == procs[p]
         s == remove(db, r.table, r.entity)
     IN /\ db' = s.db
        /\ resp' = [resp EXCEPT ![p] =
                      Response("delete", r.table, r.caller, r.id, Null,
                               AwaitInTry(s.outcome))]
  /\ procs' = [procs EXCEPT ![p] = Idle]
  /\ UNCHANGED <<nextId, now>>

\* time passes on the storage clock (CreateDateColumn takes its value there)
Tick ==
  /\ now < MaxClock
  /\ now' = now + 1
  /\ UNCHANGED <<db, nextId, procs, resp>>

(***************************************************************************)
(* Inputs.                                                                 *)
(***************************************************************************)
\* a DTO with only the properties in keys defined
Restrict(dto, keys) == [f \in keys |-> dto[f]]

CreateBlogDtos == [title : Texts, content : Texts, published : BOOLEAN]

\* every subset of the updatable fields of a blog, with two choices of values
UpdateBlogDtos ==
  {Restrict(dto, keys) :
     dto \in {[title |-> Ag, content |-> Ag, published |-> TRUE],
              [title |-> Go, content |-> Go, published |-> FALSE]},
     keys \in SUBSET {"title", "content", "published"}}

\* the field lists asked of the blog dropdown (the controller's default first)
BlogDropdownFields == {<<"id", "title">>, <<"title">>}

\* the ids a request may name: every id handed out so far and the next one
KnownIds(t) == 1..nextId[t]

\* the slot of the specifications that run one request at a time
Solo == 1

\* rows created so far in the given tables
Created(ts) ==
  LET RECURSIVE Sum(_)
      Sum(rest) == IF rest = {} THEN 0
                   ELSE LET t == CHOOSE x \in rest : TRUE
                        IN (nextId[t] - 1) + Sum(rest \ {t})
  IN Sum(ts)

(***************************************************************************)
(* Spec: the blog resource, one request at a time.                         *)
(***************************************************************************)
SpecBlogDtos == {dto \in CreateBlogDtos : dto.content = Go}

SpecUpdateDtos ==
  {dto \in UpdateBlogDtos : "content" \in DOMAIN dto => dto.content = Go}

Next ==
  \/ \E u \in Users, dto \in SpecBlogDtos :
       nextId["blogs"] <= MaxBlogs /\ Create(Solo, "blogs", u, dto)
  \/ \E u \in Users, id \in KnownIds("blogs") : GetById(Solo, "blogs", u, id)
  \/ \E u \in Users, k \in Keywords : GetAll(Solo, "blogs", u, 0, 10, k)
  \/ \E u \in Users, k \in Keywords, fields \in BlogDropdownFields :
       Dropdown(Solo, "blogs", u, fields, k)
  \/ \E u \in Users, id \in KnownIds("blogs"), dto \in SpecUpdateDtos :
       UpdateRead(Solo, "blogs", u, id, dto)
  \/ UpdateSave(Solo)
  \/ \E u \in Users, id \in KnownIds("blogs") : DeleteRead(Solo, "blogs", u, id)
  \/ DeleteRemove(Solo)

Spec == Init /\ [][Next]_vars

(***************************************************************************)
(* Properties of the blog resource (Spec).                                 *)
(***************************************************************************)
Ids(rows) == {r.id : r \in rows}

\* the outcome every service reports for a missing record
NotFound(t) == BadRequestException(NotFoundMessage(t), "undefined")

\* the caller owns a stored row of table t with this id
Owns(d, t, userId, id) ==
  \E r \in d[t] : r.id = id /\ r[OwnerRelation(t)] = userId

\* the step completes a request on slot p
Completes(p) == resp'[p] /= resp[p] /\ resp'[p].op /= "none"

\* C1: every row the blog list and the blog dropdown return to caller u has
\* author = u, for every keyword and every field list.
C1_BlogListsReturnOnlyOwnBlogs ==
  \A u \in Users, k \in Keywords :
    /\ \A r \in GetAllMatches(db, "blogs", u, k) : r.author = u
    /\ \A fields \in BlogDropdownFields :
         \A r \in DropdownMatches(db, "blogs", u, fields, k) : r.author = u

\* C4: an update or a delete of an owner-scoped record by a caller who owns
\* no stored record of that id answers not-found and changes no stored row.
C4_ForeignUpdateDeleteRejected ==
  [][\A p \in Procs :
       (/\ Completes(p)
        /\ resp'[p].op \in {"update", "delete"}
        /\ OwnerScoped(resp'[p].table)
        /\ ~Owns(db, resp'[p].table, resp'[p].caller, resp'[p].id))
       => /\ resp'[p].outcome = NotFound(resp'[p].table)
          /\ db' = db]_vars

\* a non-owner's update, and a delete of an id that is not stored, were rejected
C4_Witness ==
  /\ resp[Solo].op = "update"
  /\ resp[Solo].outcome.status = "error"
  /\ \E r \in db[resp[Solo].table] :
       r.id = resp[Solo].id /\ r.author /= resp[Solo].caller

\* the fields lists asked of a dropdown
DropdownFields(t) == IF t = "blogs" THEN BlogDropdownFields ELSE {<<"id">>}

\* no caller can get, list or pick the record
Gone(d, t, id) ==
  \A u \in Users :
    /\ getById(d, t, u, id) = NotFound(t)
    /\ \A k \in Keywords :
         /\ id \notin Ids(GetAllMatches(d, t, u, k))
         /\ \A fields \in DropdownFields(t) :
              id \notin Ids(DropdownMatches(d, t, u, fields, k))

\* C8: once a delete of a record has succeeded, the record is gone for every
\* caller, and a record that is gone stays gone whatever request follows
\* (a create never hands out its id again).
C8_DeletedStaysGone ==
  [][/\ \A p \in Procs :
          (Completes(p) /\ resp'[p].op = "delete"
           /\ resp'[p].outcome.status = "ok")
          => Gone(db', resp'[p].table, resp'[p].id)
     /\ \A t \in Tables : \A id \in 1..(nextId[t] - 1) :
          id \notin Ids(db[t]) => Gone(db', t, id)]_vars

\* a get-by-id of a deleted blog answered not-found while another blog was
\* created after the delete
C8_Witness ==
  /\ resp[Solo].op = "getById"
  /\ resp[Solo].id < nextId["blogs"] - 1
  /\ resp[Solo].id \notin Ids(db["blogs"])
  /\ resp[Solo].outcome = NotFound("blogs")
  /\ db["blogs"] /= {}

(***************************************************************************)
(* SpecOwned: drafts, comments and likes of two users on shared blogs, one *)
(* request at a time.                                                      *)
(***************************************************************************)
OwnedTables == {"drafts", "comments", "likes"}

OwnedBlogDtos ==
  {[title |-> Go, content |-> Go, published |-> FALSE],
   [title |-> Ag, content |-> Ag, published |-> TRUE]}

\* the properties of the create and update DTOs of a child resource
DtoProperties(t) == Columns(t) \cup {DtoKey(rel) : rel \in ParentRelations(t)}

\* Create<Resource>Dto of a draft, a comment or a like: every property set
CreateChildDtos(t) ==
  {Restrict([content |-> c, blogId |-> b], DtoProperties(t)) :
     c \in Texts, b \in KnownIds("blogs")}

\* Update<Resource>Dto of a draft, a comment or a like: any subset set
UpdateChildDtos(t) ==
  {Restrict([content |-> Ag, blogId |-> b], keys) :
     b \in KnownIds("blogs"), keys \in SUBSET DtoProperties(t)}

NextOwned ==
  \/ \E u \in Users, dto \in OwnedBlogDtos :
       nextId["blogs"] <= MaxParents /\ Create(Solo, "blogs", u, dto)
  \/ \E t \in OwnedTables, u \in Users : \E dto \in CreateChildDtos(t) :
       Created(OwnedTables) < MaxRows /\ Create(Solo, t, u, dto)
  \/ \E t \in OwnedTables \cup {"blogs"}, u \in Users : \E id \in KnownIds(t) :
       GetById(Solo, t, u, id)
  \/ \E t \in OwnedTables, u \in Users, k \in Keywords :
       GetAll(Solo, t, u, 0, 10, k)
  \/ \E t \in OwnedTables, u \in Users :
       \E id \in KnownIds(t), dto \in UpdateChildDtos(t) :
         UpdateRead(Solo, t, u, id, dto)
  \/ UpdateSave(Solo)
  \/ \E t \in OwnedTables, u \in Users : \E id \in KnownIds(t) :
       DeleteRead(Solo, t, u, id)
  \/ DeleteRemove(Solo)

SpecOwned == Init /\ [][NextOwned]_vars

\* C2: every row the list of drafts, comments or likes returns to caller u is
\* owned by u, for every keyword (so the total counts only the caller's rows).
C2_OwnedListsReturnOnlyOwnRows ==
  \A t \in OwnedTables, u \in Users, k \in Keywords :
    \A r \in GetAllMatches(db, t, u, k) : r[OwnerRelation(t)] = u

\* the store without one row
Without(d, t, r) == [d EXCEPT ![t] = @ \ {r}]

\* C3: a get-by-id by a caller who does not own the record has the outcome it
\* would have were the record not stored, which is the outcome of an id that
\* was never handed out: the same error kind and the same message.
C3_ForeignIdLikeMissingId ==
  \A t \in Tables : OwnerScoped(t) =>
    \A r \in db[t], u \in Users :
      r[OwnerRelation(t)] /= u =>
        /\ getById(db, t, u, r.id) = getById(Without(db, t, r), t, u, r.id)
        /\ getById(db, t, u, r.id) = getById(db, t, u, nextId[t])

\* a caller asked for another user's stored draft, comment or like and got an error
C3_Witness ==
  /\ resp[Solo].op = "getById"
  /\ resp[Solo].table \in OwnedTables
  /\ resp[Solo].outcome.status = "error"
  /\ \E r \in db[resp[Solo].table] :
       /\ r.id = resp[Solo].id
       /\ r[OwnerRelation(resp[Solo].table)] /= resp[Solo].caller

\* C5: every failure a service reports is the generic bad-request error.
C5_EveryFailureIsBadRequest ==
  \A p \in Procs :
    (resp[p].op /= "none" /\ resp[p].outcome.status = "error")
      => resp[p].outcome.error = "BadRequestException"

(***************************************************************************)
(* SpecMerge: one user creates and updates blogs and drafts, one request   *)
(* at a time.                                                              *)
(***************************************************************************)
Author == 1

NextMerge ==
  \/ \E dto \in OwnedBlogDtos :
       nextId["blogs"] <= MaxBlogs /\ Create(Solo, "blogs", Author, dto)
  \/ \E dto \in CreateChildDtos("drafts") :
       Created({"drafts"}) < MaxRows /\ Create(Solo, "drafts", Author, dto)
  \/ \E id \in KnownIds("blogs"), dto \in UpdateBlogDtos :
       UpdateRead(Solo, "blogs", Author, id, dto)
  \/ \E id \in KnownIds("drafts"), dto \in UpdateChildDtos("drafts") :
       UpdateRead(Solo, "drafts", Author, id, dto)
  \/ UpdateSave(Solo)

SpecMerge == Init /\ [][NextMerge]_vars

StoredRow(d, t, id) == CHOOSE r \in d[t] : r.id = id

\* C7: after an update, each column and each parent reference the caller
\* supplied has the supplied value, and every other field of the record
\* (the owner, the id and the creation time included) has the value it had
\* before the update.
C7_PartialMerge ==
  [][\A p \in Procs :
       (/\ procs[p].pc = "save"
        /\ procs'[p].pc = "idle"
        /\ resp'[p].outcome.status = "ok")
       => LET t == procs[p].table
              dto == procs[p].dto
              old == StoredRow(db, t, procs[p].id)
              new == StoredRow(db', t, procs[p].id)
          IN /\ Ids(db'[t]) = Ids(db[t])
             /\ \A f \in DOMAIN old :
                  new[f] = IF f \in Columns(t) /\ f \in DOMAIN dto
                           THEN dto[f]
                           ELSE IF f \in ParentRelations(t)
                                   /\ DtoKey(f) \in DOMAIN dto
                           THEN dto[DtoKey(f)]
                           ELSE old[f]
             /\ \A r \in db[t] : r.id /= procs[p].id => r \in db'[t]]_vars

\* an update that supplied only the title of a blog changed the title and
\* left a different content and the published flag in place
C7_Witness ==
  /\ resp[Solo].op = "update"
  /\ resp[Solo].outcome.status = "ok"
  /\ resp[Solo].table = "blogs"
  /\ DOMAIN resp[Solo].input = {"title"}
  /\ \E r \in db["blogs"] :
       /\ r.id = resp[Solo].id
       /\ r.title = resp[Solo].input.title
       /\ r.content /= r.title
       /\ r.published

(***************************************************************************)
(* SpecCascade: every resource is created, fetched by id, and blogs, tags  *)
(* and categories are deleted, one request at a time.                      *)
(***************************************************************************)
ParentTables == {"blogs", "tags", "categories"}

ChildTables == Tables \ ParentTables

\* the creation DTO of each resource, parents referenced by any id a request
\* may name
CascadeDtos(t) ==
  IF t = "blogs" THEN {[title |-> Go, content |-> Ag, published |-> TRUE]}
  ELSE IF t \in {"tags", "categories"} THEN {[name |-> Go]}
  ELSE {Restrict([content |-> Go, blogId |-> b, tagId |-> g, categoryId |-> c],
                 DtoProperties(t)) :
          b \in KnownIds("blogs"), g \in KnownIds("tags"),
          c \in KnownIds("categories")}

NextCascade ==
  \/ \E t \in ParentTables, u \in Users : \E dto \in CascadeDtos(t) :
       nextId[t] <= MaxParents /\ Create(Solo, t, u, dto)
  \/ \E t \in ChildTables, u \in Users : \E dto \in CascadeDtos(t) :
       Created(ChildTables) < MaxRows /\ Create(Solo, t, u, dto)
  \/ \E t \in Tables, u \in Users : \E id \in KnownIds(t) :
       GetById(Solo, t, u, id)
  \/ \E t \in ParentTables, u \in Users : \E id \in KnownIds(t) :
       DeleteRead(Solo, t, u, id)
  \/ DeleteRemove(Solo)

SpecCascade == Init /\ [][NextCascade]_vars

\* the tables whose rows reference a blog
BlogChildren == {"blogTags", "blogCategories", "drafts", "comments", "likes"}

\* C9: after deleteBlog succeeds no blog-tag, blog-category, draft, comment
\* or like row references the deleted blog, whoever owns the row.
C9_BlogDeleteCascades ==
  [][\A p \in Procs :
       (/\ Completes(p)
        /\ resp'[p].op = "delete"
        /\ resp'[p].table = "blogs"
        /\ resp'[p].outcome.status = "ok")
       => \A c \in BlogChildren : \A x \in db'[c] : x.blog /= resp'[p].id]_vars

\* a blog was deleted and the draft, comment or like created on it is gone
C9_Witness ==
  /\ resp[Solo].op = "delete"
  /\ resp[Solo].table = "blogs"
  /\ resp[Solo].outcome.status = "ok"
  /\ \E c \in OwnedTables : nextId[c] > 1 /\ db[c] = {}

\* C10: fetching by the id a create returned, as the creating caller, yields
\* the record with the generated id, every column equal to the input and
\* every parent reference equal to the input's parent id.
C10_CreateThenGet ==
  [][\A p \in Procs :
       (/\ Completes(p)
        /\ resp'[p].op = "create"
        /\ resp'[p].outcome.status = "ok")
       => LET t == resp'[p].table
              dto == resp'[p].input
              got == getById(db', t, resp'[p].caller, resp'[p].id)
          IN /\ resp'[p].id = nextId[t]
             /\ resp'[p].id \notin Ids(db[t])
             /\ got.status = "ok"
             /\ got.value.id = resp'[p].id
             /\ \A f \in Columns(t) : got.value[f] = dto[f]
             /\ \A rel \in ParentRelations(t) :
                  got.value[rel].id = dto[DtoKey(rel)]]_vars

\* a blog-tag was created on a stored blog and a stored tag
C10_Witness ==
  /\ resp[Solo].op = "create"
  /\ resp[Solo].table = "blogTags"
  /\ resp[Solo].outcome.status = "ok"
  /\ \E r \in db["blogTags"] : r.id = resp[Solo].id

(***************************************************************************)
(* SpecRace: one user's blogs and tags are created, then two requests      *)
(* update them concurrently, each request's read and save separate steps.  *)
(***************************************************************************)
RaceTables == {"blogs", "tags"}

RaceCreateDtos(t) ==
  IF t = "blogs" THEN {[title |-> Go, content |-> Ag, published |-> TRUE]}
  ELSE {[name |-> Go]}

RaceUpdateDtos(t) ==
  IF t = "blogs"
  THEN {Restrict([title |-> Ag, content |-> Go, published |-> FALSE], keys) :
          keys \in {{"title"}, {"content"}, {"published"}, {"title", "content"}}}
  ELSE {[name |-> Ag], [name |-> <<"g">>]}

NoUpdateYet == \A p \in Procs : Free(p) /\ resp[p].op /= "update"

NextRace ==
  \/ \E t \in RaceTables : \E dto \in RaceCreateDtos(t) :
       /\ nextId[t] <= MaxParents
       /\ NoUpdateYet
       /\ Create(Solo, t, Author, dto)
  \/ \E p \in Procs, t \in RaceTables :
       \E id \in KnownIds(t), dto \in RaceUpdateDtos(t) :
         /\ resp[p].op /= "update"
         /\ UpdateRead(p, t, Author, id, dto)
  \/ \E p \in Procs : UpdateSave(p)

SpecRace == Init /\ [][NextRace]_vars

\* C6: a save of an update stores the merge of the copy the request read
\* before its save: each column the request did not supply is written back
\* with the value of that copy, whatever another request stored in between,
\* so the value of an update that saved in between is lost.
C6_SaveWritesBackStaleCopy ==
  [][\A p \in Procs :
       (/\ procs[p].pc = "save"
        /\ procs'[p].pc = "idle"
        /\ resp'[p].outcome.status = "ok")
       => LET r == procs[p]
              row == StoredRow(db', r.table, r.id)
          IN \A f \in Columns(r.table) :
               row[f] = IF f \in DOMAIN r.dto THEN r.dto[f] ELSE r.entity[f]]_vars

\* both requests updated the same blog with disjoint fields, both succeeded,
\* and the stored blog lacks the value one of them supplied
C6_Witness ==
  /\ \A p \in Procs :
       /\ resp[p].op = "update"
       /\ resp[p].table = "blogs"
       /\ resp[p].outcome.status = "ok"
  /\ resp[1].id = resp[2].id
  /\ DOMAIN resp[1].input \cap DOMAIN resp[2].input = {}
  /\ \E p \in Procs : \E f \in DOMAIN resp[p].input :
       StoredRow(db, "blogs", resp[p].id)[f] /= resp[p].input[f]

(***************************************************************************)
(* SpecList: tags and one user's blogs are created while the clock may or  *)
(* may not advance between two creations, and listed page by page.         *)
(***************************************************************************)
\* search terms of the lists: "", "g", "%g"
ListKeywords == {NoKeyword, <<"g">>, <<"%", "g">>}

ListedTables == {"tags", "blogs"}

ListDtos(t) ==
  IF t = "tags" THEN {[name |-> Go], [name |-> Ag]}
  ELSE {[title |-> Go, content |-> Ag, published |-> TRUE]}

Skips == 0..MaxListed

Takes == 1..MaxListed

\* the field list each dropdown is asked for (the controllers' default)
ListDropdownFields(t) == IF t = "tags" THEN <<"id", "name">> ELSE <<"id", "title">>

NextList ==
  \/ \E t \in ListedTables : \E dto \in ListDtos(t) :
       /\ Created(ListedTables) < MaxListed
       /\ Create(Solo, t, Author, dto)
  \/ Tick
  \/ \E t \in ListedTables, skip \in Skips, take \in Takes, k \in ListKeywords :
       GetAll(Solo, t, Author, skip, take, k)
  \/ \E t \in ListedTables, k \in ListKeywords :
       Dropdown(Solo, t, Author, ListDropdownFields(t), k)

SpecList == Init /\ [][NextList]_vars

\* the ids of a result, in its order
ResultIds(result) == [i \in DOMAIN result |-> result[i].id]

\* C11: over a dataset of at least 2N matching rows, whatever page 1 and
\* page 2 of size N answer, the two pages are disjoint and page 1 followed by
\* page 2 is the first 2N rows of the rows ordered by creation time
\* descending, also when rows have equal creation time.
C11_PagesPartition ==
  \A t \in ListedTables, k \in ListKeywords, n \in Takes :
    \A page1 \in getAll(db, t, Author, 0, n, k) :
      \A page2 \in getAll(db, t, Author, n, n, k) :
        page1.total >= 2 * n =>
          /\ \A i \in DOMAIN page1.result, j \in DOMAIN page2.result :
               page1.result[i].id /= page2.result[j].id
          /\ \E s \in OrderedByCreatedAtDesc(GetAllMatches(db, t, Author, k)) :
               ResultIds(page1.result) \o ResultIds(page2.result)
                 = ResultIds(Window(s, 0, 2 * n))

\* the smaller of two numbers
Min(a, b) == IF a < b THEN a ELSE b

StartsWith(text, k) ==
  /\ Len(k) <= Len(text)
  /\ \A i \in 1..Len(k) : text[i] = k[i]

\* C13: for every keyword, wildcard characters included, a tag is matched by
\* the list and by the dropdown exactly when its name starts with the keyword.
C13_LiteralPrefixMatch ==
  \A k \in ListKeywords \ {NoKeyword} : \A r \in db["tags"] :
    /\ r \in GetAllMatches(db, "tags", Author, k) <=> StartsWith(r.name, k)
    /\ r \in DropdownMatches(db, "tags", Author, <<"name">>, k)
         <=> StartsWith(r.name, k)

\* the creation time of the stored row with this id
CreatedAtOf(t, id) == (CHOOSE r \in db[t] : r.id = id).createdAt

\* C17: every list and every dropdown result is ordered by creation time,
\* most recent first.
C17_MostRecentFirst ==
  \A t \in ListedTables, k \in ListKeywords :
    /\ \A page \in getAll(db, t, Author, 0, MaxListed, k) :
         \A i, j \in DOMAIN page.result :
           i < j => page.result[i].createdAt >= page.result[j].createdAt
    /\ \A options \in findAllDropdown(db, t, Author, ListDropdownFields(t), k) :
         \A i, j \in DOMAIN options :
           i < j => CreatedAtOf(t, options[i].id) >= CreatedAtOf(t, options[j].id)

(***************************************************************************)
(* SpecDropdown: more tags and blogs than a dropdown holds are created,    *)
(* and after a creation a dropdown is asked.                               *)
(***************************************************************************)
OptionTables == {"tags", "blogs"}

OptionDtos(t) ==
  IF t = "tags" THEN {[name |-> Go]}
  ELSE {[title |-> Go, content |-> Ag, published |-> TRUE]}

OptionFields(t) ==
  IF t = "tags" THEN {<<"id", "name">>, <<"name">>}
  ELSE {<<"id", "title">>, <<"title">>}

OptionKeywords == {NoKeyword, <<"g">>}

NextDropdown ==
  \/ \E t \in OptionTables : \E dto \in OptionDtos(t) :
       /\ Created(OptionTables) < MaxOptions
       /\ Create(Solo, t, Author, dto)
  \/ \E t \in OptionTables, k \in OptionKeywords : \E fields \in OptionFields(t) :
       /\ resp[Solo].op /= "dropdown"
       /\ Dropdown(Solo, t, Author, fields, k)

SpecDropdown == Init /\ [][NextDropdown]_vars

\* C16: a dropdown answers with at most 5 rows, whatever the field list, the
\* keyword and the number of stored rows that match.
C16_DropdownAtMostFive ==
  \A p \in Procs :
    resp[p].op = "dropdown" /\ resp[p].outcome.status = "ok"
      => Len(resp[p].outcome.value) <= 5

\* a dropdown answered 5 rows while more than 5 stored rows matched
C16_Witness ==
  /\ resp[Solo].op = "dropdown"
  /\ resp[Solo].outcome.status = "ok"
  /\ Len(resp[Solo].outcome.value) = 5
  /\ Cardinality(DropdownMatches(db, resp[Solo].table, resp[Solo].caller,
                                 resp[Solo].input.fields,
                                 resp[Solo].input.keyword)) > 5

(***************************************************************************)
(* SpecPaging: tags and one user's blogs are created and listed through    *)
(* the controllers, with every kind of page and limit parameter.           *)
(***************************************************************************)
\* page and limit as a client can send them: absent, "", "0", "1", "2",
\* "-1", "99" and "a"
QueryNumbers ==
  {Undefined} \cup
  {Str(text) : text \in {<<>>, <<"0">>, <<"1">>, <<"2">>, <<"-", "1">>,
                         <<"9", "9">>, <<"a">>}}

NextPaging ==
  \/ \E t \in ListedTables : \E dto \in OptionDtos(t) :
       /\ Created(ListedTables) < MaxListed
       /\ Create(Solo, t, Author, dto)
  \/ \E t \in ListedTables, page \in QueryNumbers, limit \in QueryNumbers :
       GetAllPaged(Solo, t, Author, page, limit, NoKeyword)

SpecPaging == Init /\ [][NextPaging]_vars

\* C15: for every page and limit a list request carried, the page number and
\* the page size passed on are numbers of at least 1 (1 and 10 when the
\* parameter is absent) and skip is the number (page - 1) * take, at least 0.
C15_PaginationClamped ==
  \A p \in Procs :
    resp[p].op = "list" =>
      LET pg == Pagination(resp[p].input.page, resp[p].input.limit)
      IN /\ ~pg.pageNumber.nan /\ pg.pageNumber.val >= 1
         /\ ~pg.itemsPerPage.nan /\ pg.itemsPerPage.val >= 1
         /\ ~pg.skip.nan /\ pg.skip.val >= 0
         /\ pg.skip.val = (pg.pageNumber.val - 1) * pg.itemsPerPage.val
         /\ resp[p].input.page = Undefined => pg.pageNumber.val = 1
         /\ resp[p].input.limit = Undefined => pg.itemsPerPage.val = 10

(***************************************************************************)
(* SpecScoped: blogs, a tag, a category and rows that reference them are   *)
(* created, and the lists scoped to a parent are asked.  A list leaves the *)
(* store as it is, so each list is asked of the store a creation left.     *)
(***************************************************************************)
\* the resources that have a list scoped to a parent, likes aside
ScopedTables == {"drafts", "comments", "blogTags", "blogCategories"}

ScopedKeywords == {NoKeyword, <<"g">>, <<"a">>}

\* the callers that matter to the lists of a resource
ScopedCallers(t) == IF OwnerScoped(t) THEN Users ELSE {Author}

NextScoped ==
  \/ \E dto \in CascadeDtos("blogs") :
       nextId["blogs"] <= MaxListed /\ Create(Solo, "blogs", Author, dto)
  \/ \E t \in {"tags", "categories"} : \E dto \in CascadeDtos(t) :
       nextId[t] <= MaxParents /\ Create(Solo, t, Author, dto)
  \/ \E t \in ScopedTables : \E u \in ScopedCallers(t), dto \in CascadeDtos(t) :
       Created(ScopedTables) < MaxRows /\ Create(Solo, t, u, dto)
  \/ \E t \in ScopedTables, k \in ScopedKeywords :
       \E u \in ScopedCallers(t), rel \in ParentRelations(t) :
         \E id \in KnownIds(RelationTarget(rel)) :
           /\ resp[Solo].op /= "listByParent"
           /\ GetByParent(Solo, t, rel, u, id, 0, 10, k)

SpecScoped == Init /\ [][NextScoped]_vars

\* C14: every row a parent-scoped list of blog-tags, blog-categories, drafts
\* or comments returns references the requested parent and, for drafts and
\* comments, is owned by the caller; with a keyword the rows and the total
\* are among those of the same list without keyword.
C14_ParentScopeKept ==
  [][\A p \in Procs :
       (Completes(p) /\ resp'[p].op = "listByParent")
       => LET r == resp'[p]
              t == r.table
              page == r.outcome.value
              scoped == ByParentMatches(db, t, r.input.rel, r.caller, r.id,
                                        NoKeyword)
          IN /\ \A i \in DOMAIN page.result :
                  LET row == StoredRow(db, t, page.result[i].id)
                  IN /\ row[r.input.rel] = r.id
                     /\ OwnerScoped(t) => row[OwnerRelation(t)] = r.caller
                     /\ row \in scoped
             /\ page.total <= Cardinality(scoped)]_vars

\* a parent-scoped list was asked with a keyword that a stored row matches,
\* a row of another parent or of another owner, and did not return it
C14_Witness ==
  /\ resp[Solo].op = "listByParent"
  /\ resp[Solo].input.search /= NoKeyword
  /\ \E x \in db[resp[Solo].table] :
       /\ \/ x[resp[Solo].input.rel] /= resp[Solo].id
          \/ /\ OwnerScoped(resp[Solo].table)
             /\ x[OwnerRelation(resp[Solo].table)] /= resp[Solo].caller
       /\ \E u \in Users, id \in KnownIds(RelationTarget(resp[Solo].input.rel)) :
            x \in ByParentMatches(db, resp[Solo].table, resp[Solo].input.rel, u,
                                  id, resp[Solo].input.search)
       /\ \A i \in DOMAIN resp[Solo].outcome.value.result :
            resp[Solo].outcome.value.result[i].id /= x.id

(***************************************************************************)
(* SpecOwner: owner-scoped records are created from request bodies that    *)
(* may name an owner themselves, and fetched.                              *)
(***************************************************************************)
OwnerTables == {"blogs"} \cup OwnedTables

\* the properties by which a request body may try to name an owner
OwnerProperties(t, v) == (OwnerRelation(t) :> [id |-> v]) @@ [userId |-> v]

\* the valid body of a create, alone or with owner properties added
OwnerBodies(t) ==
  UNION {{dto} \cup {dto @@ OwnerProperties(t, v) : v \in Users} :
           dto \in CascadeDtos(t)}

NextOwner ==
  \/ \E u \in Users : \E body \in OwnerBodies("blogs") :
       nextId["blogs"] <= MaxParents /\ Create(Solo, "blogs", u, body)
  \/ \E t \in OwnedTables, u \in Users : \E body \in OwnerBodies(t) :
       Created(OwnedTables) < MaxRows /\ Create(Solo, t, u, body)
  \/ \E t \in OwnerTables, u \in Users : \E id \in KnownIds(t) :
       GetById(Solo, t, u, id)

SpecOwner == Init /\ [][NextOwner]_vars

\* C18: the record a create by caller u stores has u in its owner relation,
\* whatever the request body contains.
C18_OwnerIsCaller ==
  [][\A p \in Procs :
       (/\ Completes(p)
        /\ resp'[p].op = "create"
        /\ resp'[p].outcome.status = "ok")
       => LET t == resp'[p].table
          IN /\ StoredRow(db', t, resp'[p].id)[OwnerRelation(t)] = resp'[p].caller
             /\ resp'[p].outcome.value[OwnerRelation(t)].id = resp'[p].caller]_vars

\* a create whose body named another user as the owner succeeded
C18_Witness ==
  /\ resp[Solo].op = "create"
  /\ resp[Solo].outcome.status = "ok"
  /\ "userId" \in DOMAIN resp[Solo].input
  /\ resp[Solo].input.userId /= resp[Solo].caller
  /\ resp[Solo].input[OwnerRelation(resp[Solo].table)].id /= resp[Solo].caller

\* C19: a blog-tag or blog-category row is created by, and returned by id
\* to, only the author of the blog the row references.
C19_JunctionFollowsBlogAuthor ==
  [][\A p \in Procs :
       (/\ Completes(p)
        /\ resp'[p].table \in {"blogTags", "blogCategories"}
        /\ resp'[p].op \in {"create", "getById"}
        /\ resp'[p].outcome.status = "ok")
       => Owns(db', "blogs", resp'[p].caller, resp'[p].outcome.value.blog.id)]_vars

(***************************************************************************)
(* SpecJunction: one request slot creates and updates blog-tags and        *)
(* blog-categories while the other deletes blogs, tags and categories.     *)
(***************************************************************************)
JunctionTables == {"blogTags", "blogCategories"}

\* UpdateBlogTagDto and UpdateBlogCategoryDto: each parent id is optional;
\* the updates that move a row to another parent of one kind
JunctionUpdateDtos(t) ==
  UNION {{Restrict(dto, {key}) : key \in DOMAIN dto} : dto \in CascadeDtos(t)}

Writer == 1

Deleter == 2

NextJunction ==
  \/ \E t \in ParentTables : \E dto \in CascadeDtos(t) :
       Created(ParentTables) <= MaxParents /\ Create(Writer, t, Author, dto)
  \/ \E t \in JunctionTables : \E dto \in CascadeDtos(t) :
       Created(JunctionTables) < MaxRows /\ Create(Writer, t, Author, dto)
  \/ \E t \in JunctionTables :
       \E id \in KnownIds(t), dto \in JunctionUpdateDtos(t) :
         UpdateRead(Writer, t, Author, id, dto)
  \/ UpdateSave(Writer)
  \/ \E t \in ParentTables : \E id \in KnownIds(t) :
       DeleteRead(Deleter, t, Author, id)
  \/ DeleteRemove(Deleter)

SpecJunction == Init /\ [][NextJunction]_vars

\* C20: every stored blog-tag references a stored blog and a stored tag and
\* every stored blog-category a stored blog and a stored category; a delete
\* of a found tag or category succeeds and leaves no row that references it.
C20_JunctionsNeverDangle ==
  [][/\ \A t \in JunctionTables : \A x \in db'[t] :
          \A rel \in ParentRelations(t) :
            \E y \in db'[RelationTarget(rel)] : y.id = x[rel]
     /\ \A p \in Procs :
          (/\ procs[p].pc = "remove"
           /\ procs'[p].pc = "idle"
           /\ procs[p].table \in {"tags", "categories"})
          => /\ resp'[p].outcome.status = "ok"
             /\ \A t \in JunctionTables : \A x \in db'[t] :
                  \A rel \in ParentRelations(t) :
                    RelationTarget(rel) = procs[p].table => x[rel] /= procs[p].id]_vars

\* a tag was deleted while its blog stayed, and the blog-tag on them is gone
C20_Witness ==
  /\ resp[Deleter].op = "delete"
  /\ resp[Deleter].table = "tags"
  /\ resp[Deleter].outcome.status = "ok"
  /\ nextId["blogTags"] > 1
  /\ db["blogTags"] = {}
  /\ db["blogs"] /= {}
  /\ db["tags"] = {}

(***************************************************************************)
(* SpecLife: blogs, drafts and likes of two users are created and updated   *)
(* on one request slot while the other slot deletes blogs (and with them   *)
(* their drafts and likes); the read and the write of an update and of a   *)
(* delete are separate steps.                                              *)
(***************************************************************************)
LifeTables == {"blogs", "drafts", "likes"}

LifeChildren == LifeTables \ {"blogs"}

LifeUpdateDtos(t) ==
  IF t = "blogs" THEN {[title |-> Ag]}
  ELSE IF t = "drafts" THEN {[content |-> Ag]}
  ELSE {<<>>}

NextLife ==
  \/ \E u \in Users : \E dto \in CascadeDtos("blogs") :
       nextId["blogs"] <= MaxParents /\ Create(Writer, "blogs", u, dto)
  \/ \E t \in LifeChildren, u \in Users : \E dto \in CascadeDtos(t) :
       Created(LifeChildren) < MaxRows /\ Create(Writer, t, u, dto)
  \/ \E t \in LifeTables, u \in Users :
       \E id \in KnownIds(t), dto \in LifeUpdateDtos(t) :
         UpdateRead(Writer, t, u, id, dto)
  \/ UpdateSave(Writer)
  \/ \E u \in Users : \E id \in KnownIds("blogs") :
       DeleteRead(Deleter, "blogs", u, id)
  \/ DeleteRemove(Deleter)

SpecLife == Init /\ [][NextLife]_vars

C26_NoResurrection ==
  [][\A p \in Procs :
       (/\ procs[p].pc = "save"
        /\ procs'[p].pc = "idle"
        /\ procs[p].id \notin Ids(db[procs[p].table]))
       => procs[p].id \notin Ids(db'[procs[p].table])]_vars

\* C27: the owner of a stored owner-scoped record never changes, a record
\* that a step stores anew has the caller of the completing request as its
\* owner, and an update in flight on a stored record was sent by its owner.
C27_OwnerImmutable ==
  [][\A t \in {c \in Tables : OwnerScoped(c)} :
       /\ \A r \in db[t], x \in db'[t] :
            r.id = x.id => x[OwnerRelation(t)] = r[OwnerRelation(t)]
       /\ \A x \in db'[t] :
            x.id \notin Ids(db[t])
            => \E p \in Procs :
                 /\ Completes(p)
                 /\ resp'[p].op \in {"create", "update"}
                 /\ resp'[p].table = t
                 /\ resp'[p].id = x.id
                 /\ resp'[p].caller = x[OwnerRelation(t)]
       /\ \A p \in Procs, r \in db'[t] :
            (procs'[p].pc = "save" /\ procs'[p].table = t /\ procs'[p].id = r.id)
            => r[OwnerRelation(t)] = procs'[p].caller]_vars

\* user 2 updated a draft it created, with user 1 the author of the blog
C27_Witness ==
  /\ resp[Writer].op = "update"
  /\ resp[Writer].table = "drafts"
  /\ resp[Writer].caller = 2
  /\ resp[Writer].outcome.status = "ok"
  /\ \E r \in db["drafts"] :
       r.id = resp[Writer].id /\ r.createdBy = 2 /\ r.content = Ag

SearchTerm(raw) == IF raw.type = "undefined" THEN NoKeyword ELSE raw.text

AbsentSearches == {Undefined, Str(<<>>)}

NextAll ==
  \/ \E t \in ParentTables : \E dto \in CascadeDtos(t) :
       nextId[t] <= MaxParents /\ Create(Solo, t, Author, dto)
  \/ \E t \in ChildTables, u \in Users : \E dto \in CascadeDtos(t) :
       /\ Created(ChildTables) < MaxListed
       /\ \A c \in ChildTables \ {t} : nextId[c] = 1
       /\ Create(Solo, t, u, dto)
  \* a list leaves the store unchanged: each list is asked of the store a
  \* creation left
  \/ \E t \in Tables, u \in Users, raw \in AbsentSearches :
       resp[Solo].op /= "getAll" /\ GetAll(Solo, t, u, 0, 10, SearchTerm(raw))

SpecAll == Init /\ [][NextAll]_vars

\* the rows of a resource in the scope of a caller
InScope(d, t, userId) ==
  IF OwnerScoped(t) THEN {r \in d[t] : r[OwnerRelation(t)] = userId} ELSE d[t]

\* C23: with the search parameter absent or empty, the list of an
\* owner-scoped resource matches the caller's rows and no other, the list of
\* a global resource matches every stored row, and total is the number of
\* those rows.
C23_NoKeywordListsScope ==
  \A t \in Tables, u \in Users, raw \in AbsentSearches :
    /\ GetAllMatches(db, t, u, SearchTerm(raw)) = InScope(db, t, u)
    /\ \A page \in getAll(db, t, u, 0, 10, SearchTerm(raw)) :
         /\ page.total = Cardinality(InScope(db, t, u))
         /\ {page.result[i].id : i \in DOMAIN page.result}
              = Ids(InScope(db, t, u))

\* a list without keyword returned the caller's row of a resource in which
\* another user has a row
C23_Witness ==
  /\ resp[Solo].op = "getAll"
  /\ resp[Solo].input.search = NoKeyword
  /\ OwnerScoped(resp[Solo].table)
  /\ resp[Solo].outcome.value.total >= 1
  /\ \E r \in db[resp[Solo].table] :
       r[OwnerRelation(resp[Solo].table)] /= resp[Solo].caller

(***************************************************************************)
(* SpecJoined: blog-tags and blog-categories are created on blogs, tags    *)
(* and categories of either name, and listed by keyword.                   *)
(***************************************************************************)
JoinedSearches == {Str(<<"g">>), Str(<<"a">>), Str(<<"1">>)}

JoinedDtos(t) ==
  IF t \in {"tags", "categories"} THEN {[name |-> n] : n \in Texts}
  ELSE CascadeDtos(t)

NextJoined ==
  \/ \E t \in ParentTables : \E dto \in JoinedDtos(t) :
       nextId[t] <= MaxParents /\ Create(Solo, t, Author, dto)
  \/ \E t \in JunctionTables : \E dto \in JoinedDtos(t) :
       Created(JunctionTables) < MaxRows /\ Create(Solo, t, Author, dto)
  \/ \E t \in JunctionTables, u \in Users, raw \in JoinedSearches :
       resp[Solo].op /= "getAll" /\ GetAll(Solo, t, u, 0, 10, SearchTerm(raw))

SpecJoined == Init /\ [][NextJoined]_vars

\* keywords without a wildcard character
PlainKeywords == {SearchTerm(raw) : raw \in JoinedSearches}

LikedTables == {"likes", "blogTags"}

LikeSearches == {Undefined, Str(<<"g">>)}

NextLikes ==
  \/ \E t \in {"blogs", "tags"} : \E dto \in CascadeDtos(t) :
       nextId[t] <= MaxParents /\ Create(Solo, t, Author, dto)
  \/ \E t \in LikedTables, u \in Users : \E dto \in CascadeDtos(t) :
       Created(LikedTables) < MaxListed /\ Create(Solo, t, u, dto)
  \/ \E u \in Users, raw \in LikeSearches : \E id \in KnownIds("blogs") :
       /\ resp[Solo].op /= "listByParent"
       /\ GetByParent(Solo, "likes", "blog", u, id, 0, 10, SearchTerm(raw))

SpecLikes == Init /\ [][NextLikes]_vars

\* C25: the likes of a blog asked with a non-empty search term are answered
\* with a result, whose rows and total are the caller's likes on that blog.
C25_LikesByBlogAcceptSearch ==
  [][\A p \in Procs :
       (/\ Completes(p)
        /\ resp'[p].op = "listByParent"
        /\ resp'[p].table = "likes"
        /\ resp'[p].input.search /= NoKeyword)
       => LET own == {r \in db["likes"] :
                        r.user = resp'[p].caller /\ r.blog = resp'[p].id}
              page == resp'[p].outcome.value
          IN /\ resp'[p].outcome.status = "ok"
             /\ {page.result[i].id : i \in DOMAIN page.result} = Ids(own)
             /\ page.total = Cardinality(own)]_vars

\* the likes of a blog were asked with a search term and the caller's like
\* was returned, with a like of another user stored on the blog
C25_Witness ==
  /\ resp[Solo].op = "listByParent"
  /\ resp[Solo].table = "likes"
  /\ resp[Solo].input.search /= NoKeyword
  /\ resp[Solo].outcome.status = "ok"
  /\ resp[Solo].outcome.value.total = 1
  /\ \E r \in db["likes"] : r.blog = resp[Solo].id /\ r.user /= resp[Solo].caller

\* C30: a create of a like or of a blog-tag whose parents are stored succeeds
\* whatever rows are stored already, those with the same user and blog (blog
\* and tag) included, and stores one more row under an id no row has.
C30_NoUniquenessOnRelations ==
  [][\A p \in Procs :
       (/\ Completes(p)
        /\ resp'[p].op = "create"
        /\ resp'[p].table \in LikedTables
        /\ \A rel \in ParentRelations(resp'[p].table) :
             resp'[p].input[DtoKey(rel)] \in Ids(db[RelationTarget(rel)]))
       => LET t == resp'[p].table
          IN /\ resp'[p].outcome.status = "ok"
             /\ resp'[p].id \notin Ids(db[t])
             /\ \E x \in db'[t] : x.id = resp'[p].id /\ db'[t] = db[t] \cup {x}
             /\ Cardinality(db'[t]) = Cardinality(db[t]) + 1]_vars

\* two likes of one user on one blog are stored, under different ids
C30_Witness ==
  /\ resp[Solo].op = "create"
  /\ resp[Solo].outcome.status = "ok"
  /\ \E x, y \in db["likes"] :
       x.id /= y.id /\ x.user = y.user /\ x.blog = y.blog

(***************************************************************************)
(* SpecStub: drafts, comments, likes, blog-tags and blog-categories are    *)
(* created, one of these resources in a behaviour, and updated with DTOs   *)
(* that set any subset of their parent keys, one request at a time.        *)
(***************************************************************************)
\* the parent ids a DTO may name, with every subset of the parent keys set
StubDtos(t) ==
  {Restrict([content |-> Ag, blogId |-> b, tagId |-> g, categoryId |-> c],
            Columns(t) \cup keys) :
     b \in KnownIds("blogs"), g \in KnownIds("tags"),
     c \in KnownIds("categories"),
     keys \in SUBSET {DtoKey(rel) : rel \in ParentRelations(t)}}

NextStub ==
  \/ \E t \in ParentTables : \E dto \in CascadeDtos(t) :
       nextId[t] <= MaxParents /\ Create(Solo, t, Author, dto)
  \/ \E t \in ChildTables : \E u \in ScopedCallers(t), dto \in CascadeDtos(t) :
       /\ Created(ChildTables) < MaxRows
       /\ \A c \in ChildTables \ {t} : nextId[c] = 1
       /\ Create(Solo, t, u, dto)
  \/ \E t \in ChildTables : \E u \in ScopedCallers(t) :
       \E id \in KnownIds(t), dto \in StubDtos(t) :
         UpdateRead(Solo, t, u, id, dto)
  \/ UpdateSave(Solo)

SpecStub == Init /\ [][NextStub]_vars

\* C28: the save of an update whose DTO names only stored parents succeeds,
\* and it leaves every parent reference whose key the DTO omits as stored
\* while it sets the references the DTO names.
C28_OmittedParentKept ==
  [][\A p \in Procs :
       (/\ procs[p].pc = "save"
        /\ procs'[p].pc = "idle"
        /\ procs[p].id \in Ids(db[procs[p].table]))
       => LET t == procs[p].table
              dto == procs[p].dto
              named == {rel \in ParentRelations(t) : DtoKey(rel) \in DOMAIN dto}
          IN /\ \A rel \in ParentRelations(t) \ named :
                  StoredRow(db', t, procs[p].id)[rel]
                    = StoredRow(db, t, procs[p].id)[rel]
             /\ (\A rel \in named : dto[DtoKey(rel)] \in Ids(db[RelationTarget(rel)]))
                => /\ resp'[p].outcome.status = "ok"
                   /\ \A rel \in named :
                        StoredRow(db', t, procs[p].id)[rel] = dto[DtoKey(rel)]]_vars

\* an update of a blog-tag or blog-category that named no blog succeeded and
\* the row references a stored blog
C28_Witness ==
  /\ resp[Solo].op = "update"
  /\ resp[Solo].outcome.status = "ok"
  /\ resp[Solo].table \in JunctionTables
  /\ "blogId" \notin DOMAIN resp[Solo].input
  /\ StoredRow(db, resp[Solo].table, resp[Solo].id).blog \in Ids(db["blogs"])

(***************************************************************************)
(* SpecFrame: one user creates blogs, tags and categories, two users       *)
(* create rows of one of the other resources, and rows of every resource   *)
(* are deleted, one request at a time.                                     *)
(***************************************************************************)
NextFrame ==
  \/ \E t \in ParentTables : \E dto \in CascadeDtos(t) :
       nextId[t] <= MaxParents /\ Create(Solo, t, Author, dto)
  \/ \E t \in ChildTables : \E u \in ScopedCallers(t), dto \in CascadeDtos(t) :
       /\ Created(ChildTables) < MaxRows
       /\ \A c \in ChildTables \ {t} : nextId[c] = 1
       /\ Create(Solo, t, u, dto)
  \/ \E t \in Tables : \E u \in ScopedCallers(t), id \in KnownIds(t) :
       DeleteRead(Solo, t, u, id)
  \/ DeleteRemove(Solo)

SpecFrame == Init /\ [][NextFrame]_vars

\* C29: a delete that succeeds removes from the store the record and the
\* rows that reference it through a relation with onDelete CASCADE, and
\* nothing else: every other row of every resource is stored as before; a
\* delete that fails changes nothing.
C29_DeleteFrame ==
  [][\A p \in Procs :
       (Completes(p) /\ resp'[p].op = "delete")
       => LET t == resp'[p].table
              id == resp'[p].id
          IN IF resp'[p].outcome.status = "ok"
             THEN \A c \in Tables :
                    db'[c] =
                      {x \in db[c] :
                         /\ ~(c = t /\ x.id = id)
                         /\ ~\E rel \in ParentRelations(c) :
                               /\ RelationTarget(rel) = t
                               /\ OnDelete(c, rel) = "CASCADE"
                               /\ x[rel] = id}
             ELSE db' = db]_vars

\* a tag was deleted with a blog-category stored: the blog-category, its blog
\* and its category are stored still
C29_Witness ==
  /\ resp[Solo].op = "delete"
  /\ resp[Solo].table = "tags"
  /\ resp[Solo].outcome.status = "ok"
  /\ db["blogCategories"] /= {}
  /\ db["blogs"] /= {}
  /\ db["categories"] /= {}

====
